---- MODULE Spec2Model ----
(***************************************************************************)
(* Model of downloader.py: parallel_download gathers one                   *)
(* concurrent_download per URL; each concurrent_download probes the        *)
(* resource length with HEAD, partitions it into byte ranges, gathers one  *)
(* _partial_download per range (each streams its range into a temp file)   *)
(* and finally concatenates the temp files into the destination file.      *)
(*                                                                         *)
(* Offsets are 0-based as in the source; TLA+ sequences are 1-based, so    *)
(* the byte at offset o of a file f is f[o+1].                             *)
(***************************************************************************)
EXTENDS Integers, Sequences, FiniteSets, TLC

\* ------------------------------------------------------------ bounds ----
MaxLen == 2        \* largest Content-Length in a batch of two URLs (Spec)
MaxS == 3          \* largest session_num in a batch of two URLs (Spec)
SingleMaxLen == 5  \* largest Content-Length in a batch of one URL (SpecSingle)
SingleMaxS == 4    \* largest session_num in a batch of one URL (SpecSingle)
MaxBuf == 2        \* largest number of bytes one iter_chunked buffer carries

\* Basenames Path(urlparse(url).path).name yields for the URLs of a batch.
Names == {"a", "b"}
\* The batches of Spec: two distinct URLs (different hosts or directories)
\* whose basenames are equal or differ.  The batch of SpecSingle: one URL.
Batches == {<<"a", "a">>, <<"a", "b">>}
SingleBatches == {<<"a">>}
\* What the HEAD request of a URL does.
ProbeKinds == {"ok", "conn", "invalid", "nolength", "timeout"}

\* The content recorded for a path at which no file exists (no file has
\* this content: the bytes of a file are never negative).
NoFile == <<-1>>
None == "None"         \* Python's None
\* What an earlier run of the batch left, when there was none.
NoRun == [runs |-> 0, tmp |-> << >>, dest |-> [n \in Names |-> NoFile]]
\* Body of a response with an error status (a one-byte error page).
ErrorBody == <<99>>

VARIABLES
    session_num,  \* the S argument, shared by the whole batch
    fname,        \* fname[i]: basename of the i-th URL of the batch
    flen,         \* flen[i]: length of the resource behind URL i
    probe,        \* probe[i]: outcome of the HEAD request of URL i
    pc,           \* pc[i]: where concurrent_download(URL i) is
    fault,        \* fault[i]: exception concurrent_download(URL i) ended with
    ranges,       \* ranges[i]: arguments of the _partial_download calls made
    fst,          \* fst[i][k]: state of the k-th _partial_download of URL i
    tmp,          \* temp directory: path -> file content
    dest,         \* output directory: basename -> file content or NoFile
    ppc,          \* parallel_download: "running" | "returned" | "raised"
    result,       \* what parallel_download returned (saved_paths)
    loop,         \* "running" | "closed" (asyncio.run closed the loop)
    forder,       \* forder[i]: the fetches of URL i that returned, in the
                  \* order in which they returned
    torder,       \* the concurrent_downloads that returned, in that order
    prev          \* the number of earlier runs of the same batch, and the
                  \* files the last of them left

vars == <<session_num, fname, flen, probe, pc, fault, ranges, fst,
          tmp, dest, ppc, result, loop, forder, torder, prev>>

inputs == <<session_num, fname, flen, probe>>

Min(a, b) == IF a < b THEN a ELSE b
Max(a, b) == IF a > b THEN a ELSE b

\* The indices of the batch's URLs (urls, in the order given).
Res == 1..Len(fname)

\* ---------------------------------------------------------- resources ----
\* The byte at offset o of resource i.  Distinct for distinct (i, o), and
\* never 0, so a missing, moved, duplicated or foreign byte is visible.
Byte(i, o) == 10 * i + o + 1

\* The resource behind URL i, as a byte sequence of length L.
Resource(i, L) == [p \in 1..L |-> Byte(i, p - 1)]

\* ----------------------------------------------------------- partition ----
\* chunk_size = file_length // (session_num - 1), for session_num # 1.
ChunkSize(L, s) == L \div (s - 1)

\* The exception lines 84-88 raise, or "none".  session_num = 1 divides by
\* zero; chunk_size = 0 makes range(0, file_length, 0) raise ValueError.
PartitionFault(L, s) ==
    IF s = 1 THEN "ZeroDivisionError"
    ELSE IF ChunkSize(L, s) = 0 THEN "ValueError"
    ELSE "none"

\* range(start, stop, step) for step > 0.
RECURSIVE PyRange(_, _, _)
PyRange(start, stop, step) ==
    IF start >= stop THEN << >>
    ELSE <<start>> \o PyRange(start + step, stop, step)

\* Ranges as an off-by-one slip would make them: chunk_size passed where
\* chunk_size - 1 is, so that every range also asks for its successor's
\* first byte.
RangesEndOffByOne(L, s) ==
    LET c == ChunkSize(L, s)
        starts == PyRange(0, L, c)
    IN  [k \in 1..Len(starts) |->
            [start |-> starts[k], end |-> starts[k] + c, part |-> k]]

\* Ranges as enumerate(...) without its start argument would number them:
\* part_num counted from 0.
RangesEnumerateFromZero(L, s) ==
    LET c == ChunkSize(L, s)
        starts == PyRange(0, L, c)
    IN  [k \in 1..Len(starts) |->
            [start |-> starts[k], end |-> starts[k] + (c - 1), part |-> k - 1]]

\* The _partial_download calls of lines 88-89: for part_num, start in
\* enumerate(range(0, file_length, chunk_size), 1) the call gets
\* (start, chunk_size - 1, part_num), and line 110 asks the server for
\* bytes=start-(start + chunk_size - 1).
Ranges(L, s) ==
    LET c == ChunkSize(L, s)
        starts == PyRange(0, L, c)
    IN  [k \in 1..Len(starts) |->
            [start |-> starts[k], end |-> starts[k] + (c - 1), part |-> k]]

\* ------------------------------------------------------------- server ----
\* Body of the response to "Range: bytes=start-end" from a server that
\* honours ranges and clips the end to L - 1.
ServerBody(i, L, r) ==
    LET last == Min(r.end, L - 1)
    IN  [p \in 1..Max(0, last - r.start + 1) |-> Byte(i, r.start + p - 1)]

\* The body the k-th GET of URL i delivers: the range, or the error page
\* when the response carries an error status (line 118 does not look at
\* resp.status).
Body(i, k) ==
    IF fst[i][k].resp = "error" THEN ErrorBody
    ELSE ServerBody(i, flen[i], ranges[i][k])

\* ---------------------------------------------------------- file system ----
\* save_path of _partial_download: gettempdir()/<basename>.part<part_num>.
TempPath(i, name, k) == <<name, k>>

\* save_path of parallel_download: output_dir/<basename>.
SavePath(i, name) == name

\* A write of data through a handle whose position is off: the file is
\* extended with zero bytes when off is past its end.
WriteAt(f, off, data) ==
    [p \in 1..Max(Len(f), off + Len(data)) |->
        IF p > off /\ p <= off + Len(data) THEN data[p - off]
        ELSE IF p <= Len(f) THEN f[p]
        ELSE 0]

\* open(path, 'wb') on the temp directory: creates or truncates.
OpenTrunc(fs, path) ==
    [q \in (DOMAIN fs) \cup {path} |-> IF q = path THEN << >> ELSE fs[q]]

\* Results handed over in the order of completion (as as_completed would).
GatherResultsAsCompleted(results, completion) ==
    [j \in 1..Len(completion) |-> results[completion[j]]]

\* The result list of gather (lines 59, 90): the children's results in the
\* order of the awaitables passed, whatever the order they completed in.
GatherResults(results, completion) == results

\* Content of a file after open(path, 'ab'), writes of data and close.
OpenAppend(old, data) == IF old = NoFile THEN data ELSE old \o data

\* Content of a file after open(path, 'wb') (line 94), writes of data and
\* close: whatever was there is gone.
OpenWrite(old, data) == data

\* Lines 95-97: the parts' files, read now, concatenated in list order.
RECURSIVE Concat(_, _)
Concat(fs, paths) ==
    IF paths = << >> THEN << >>
    ELSE fs[Head(paths)] \o Concat(fs, Tail(paths))

\* content = await gather(*downloads): the paths returned, in call order.
Content(i) ==
    GatherResults([k \in 1..Len(ranges[i]) |->
                      TempPath(i, fname[i], ranges[i][k].part)], forder[i])

\* Line 96 can open every part (a missing one raises FileNotFoundError).
PartsReadable(fs, paths) == \A k \in 1..Len(paths) : paths[k] \in DOMAIN fs

\* ------------------------------------------------------------- gather ----
\* asyncio.gather without return_exceptions: the awaiting coroutine gets the
\* result list once every child returned, and gets the first exception as
\* soon as one child raised (the other children are left running).
\* gather(..., return_exceptions=True): exceptions count as results.
GatherDoneKeepingExceptions(states) ==
    \A k \in 1..Len(states) : states[k] \in {"done", "raised"}

GatherDone(states) == \A k \in 1..Len(states) : states[k] = "done"
GatherRaised(states) == \E k \in 1..Len(states) : states[k] = "raised"

FetchStates(i) == [k \in 1..Len(fst[i]) |->
                     IF fst[i][k].st = "failed" THEN "raised" ELSE
                     IF fst[i][k].st = "done" THEN "done" ELSE "pending"]

TaskStates == [i \in 1..Len(pc) |->
                 IF pc[i] \in {"done", "failed"} THEN "done" ELSE
                 IF pc[i] = "raised" THEN "raised" ELSE "pending"]

\* -------------------------------------------------------------- probe ----
\* Lines 70-82: what concurrent_download does with the HEAD outcome.
\* The same with headers.get('Content-Length', 0) in place of the KeyError
\* handler: a response without a length is taken to be a file.
ProbeOutcomeDefaultLength(kind) ==
    CASE kind \in {"ok", "nolength"} -> "proceed"
      [] kind \in {"conn", "invalid"} -> "return"
      [] OTHER -> "raise"

ProbeOutcome(kind) ==
    CASE kind = "ok" -> "proceed"
      [] kind \in {"conn", "invalid", "nolength"} -> "return"
      [] OTHER -> "raise"

\* ---------------------------------------------------------------- init ----
\* parallel_download(urls, session_num) has been called with a batch of
\* URLs and has created one concurrent_download per URL (lines 49-56);
\* no file of this run exists yet.
InitBatch(batches, maxLen, maxS) ==
    /\ session_num \in 1..maxS
    /\ fname \in batches
    /\ flen \in [Res -> 0..maxLen]
    /\ probe \in [Res -> ProbeKinds]
    /\ pc = [i \in Res |-> "pending"]
    /\ fault = [i \in Res |-> "none"]
    /\ ranges = [i \in Res |-> << >>]
    /\ fst = [i \in Res |-> << >>]
    /\ tmp = << >>
    /\ dest = [n \in Names |-> NoFile]
    /\ ppc = "running"
    /\ result = None
    /\ loop = "running"
    /\ forder = [i \in Res |-> << >>]
    /\ torder = << >>
    /\ prev = NoRun

Init == InitBatch(Batches, MaxLen, MaxS)
InitSingle == InitBatch(SingleBatches, SingleMaxLen, SingleMaxS)
InitServer == InitBatch(SingleBatches, MaxLen, MaxS)

\* ------------------------------------------------------------- actions ----
\* The task of concurrent_download(URL i) starts and issues its HEAD.
Start(i) ==
    /\ loop = "running"
    /\ pc[i] = "pending"
    /\ pc' = [pc EXCEPT ![i] = "probing"]
    /\ UNCHANGED <<inputs, fault, ranges, fst, tmp, dest, ppc, result, loop, forder, torder, prev>>

\* The HEAD fails with an exception lines 74-82 catch: return None.
ProbeFail(i) ==
    /\ loop = "running"
    /\ pc[i] = "probing"
    /\ ProbeOutcome(probe[i]) = "return"
    /\ pc' = [pc EXCEPT ![i] = "failed"]
    /\ torder' = Append(torder, i)
    /\ UNCHANGED <<inputs, fault, ranges, fst, tmp, dest, ppc, result, loop, forder, prev>>

\* The HEAD fails with an exception no except clause names.
ProbeRaise(i) ==
    /\ loop = "running"
    /\ pc[i] = "probing"
    /\ ProbeOutcome(probe[i]) = "raise"
    /\ pc' = [pc EXCEPT ![i] = "raised"]
    /\ fault' = [fault EXCEPT ![i] = "TimeoutError"]
    /\ UNCHANGED <<inputs, ranges, fst, tmp, dest, ppc, result, loop, forder, torder, prev>>

\* The HEAD answers with a Content-Length: lines 84-90 up to the await.
\* The _partial_download tasks gather creates run up to their GET without
\* touching shared state, so their requests are in flight after this step.
ProbeOk(i) ==
    /\ loop = "running"
    /\ pc[i] = "probing"
    /\ ProbeOutcome(probe[i]) = "proceed"
    /\ LET f == PartitionFault(flen[i], session_num) IN
        IF f # "none"
        THEN /\ pc' = [pc EXCEPT ![i] = "raised"]
             /\ fault' = [fault EXCEPT ![i] = f]
             /\ UNCHANGED <<ranges, fst>>
        ELSE /\ pc' = [pc EXCEPT ![i] = "fetching"]
             /\ ranges' = [ranges EXCEPT ![i] = Ranges(flen[i], session_num)]
             /\ fst' = [fst EXCEPT ![i] =
                          [k \in 1..Len(Ranges(flen[i], session_num)) |->
                              [st |-> "inflight", off |-> 0, resp |-> "none"]]]
             /\ UNCHANGED fault
    /\ UNCHANGED <<inputs, tmp, dest, ppc, result, loop, forder, torder, prev>>

\* The response headers of the k-th GET arrive: line 119 opens the temp
\* file for writing, which creates or truncates it.
FetchOpen(i, k) ==
    /\ loop = "running"
    /\ k \in 1..Len(fst[i])
    /\ fst[i][k].st = "inflight"
    /\ fst' = [fst EXCEPT ![i][k] =
                 [st |-> "streaming", off |-> 0, resp |-> "range"]]
    /\ tmp' = OpenTrunc(tmp, TempPath(i, fname[i], ranges[i][k].part))
    /\ UNCHANGED <<inputs, pc, fault, ranges, dest, ppc, result, loop, forder, torder, prev>>

\* The same when the response carries an error status (404, 416, 503...):
\* aiohttp raises nothing for it and the code opens the file all the same.
FetchOpenError(i, k) ==
    /\ loop = "running"
    /\ k \in 1..Len(fst[i])
    /\ fst[i][k].st = "inflight"
    /\ fst' = [fst EXCEPT ![i][k] =
                 [st |-> "streaming", off |-> 0, resp |-> "error"]]
    /\ tmp' = OpenTrunc(tmp, TempPath(i, fname[i], ranges[i][k].part))
    /\ UNCHANGED <<inputs, pc, fault, ranges, dest, ppc, result, loop, forder, torder, prev>>

\* iter_chunked hands over the next n bytes of the body (at most
\* buffer_size of them), and line 121 writes them at the handle's position.
FetchWrite(i, k, n) ==
    /\ loop = "running"
    /\ k \in 1..Len(fst[i])
    /\ fst[i][k].st = "streaming"
    /\ LET body == Body(i, k)
           off == fst[i][k].off
           path == TempPath(i, fname[i], ranges[i][k].part)
       IN  /\ n >= 1
           /\ off + n <= Len(body)
           /\ tmp' = [tmp EXCEPT ![path] =
                        WriteAt(tmp[path], off, SubSeq(body, off + 1, off + n))]
           /\ fst' = [fst EXCEPT ![i][k].off = off + n]
    /\ UNCHANGED <<inputs, pc, fault, ranges, dest, ppc, result, loop, forder, torder, prev>>

\* The body is exhausted: the file is closed and save_path returned.
FetchEnd(i, k) ==
    /\ loop = "running"
    /\ k \in 1..Len(fst[i])
    /\ fst[i][k].st = "streaming"
    /\ fst[i][k].off = Len(Body(i, k))
    /\ fst' = [fst EXCEPT ![i][k].st = "done"]
    /\ forder' = [forder EXCEPT ![i] = Append(@, k)]
    /\ UNCHANGED <<inputs, pc, fault, ranges, tmp, dest, ppc, result, loop, torder, prev>>

\* A transport error ends the k-th fetch, before the response or while
\* its body streams; the with-block closes the temp file as it is.
FetchFail(i, k) ==
    /\ loop = "running"
    /\ k \in 1..Len(fst[i])
    /\ fst[i][k].st \in {"inflight", "streaming"}
    /\ fst' = [fst EXCEPT ![i][k].st = "failed"]
    /\ UNCHANGED <<inputs, pc, fault, ranges, tmp, dest, ppc, result, loop, forder, torder, prev>>

\* Line 90 raises: a _partial_download raised, gather hands the exception
\* to concurrent_download, which has no handler for it.
FetchGatherRaise(i) ==
    /\ loop = "running"
    /\ pc[i] = "fetching"
    /\ GatherRaised(FetchStates(i))
    /\ pc' = [pc EXCEPT ![i] = "raised"]
    /\ fault' = [fault EXCEPT ![i] = "RangeFetchError"]
    /\ UNCHANGED <<inputs, ranges, fst, tmp, dest, ppc, result, loop, forder, torder, prev>>

\* Lines 90-100: gather returns the paths; the destination is opened for
\* writing and the parts are copied into it in list order.
Assemble(i) ==
    /\ loop = "running"
    /\ pc[i] = "fetching"
    /\ GatherDone(FetchStates(i))
    /\ PartsReadable(tmp, Content(i))
    /\ dest' = [dest EXCEPT ![SavePath(i, fname[i])] =
                   OpenWrite(@, Concat(tmp, Content(i)))]
    /\ pc' = [pc EXCEPT ![i] = "done"]
    /\ torder' = Append(torder, i)
    /\ UNCHANGED <<inputs, fault, ranges, fst, tmp, ppc, result, loop, forder, prev>>

\* Line 94 or 96 raises OSError (the directory is missing or not writable,
\* a part cannot be opened).
AssembleFail(i) ==
    /\ loop = "running"
    /\ pc[i] = "fetching"
    /\ GatherDone(FetchStates(i))
    /\ pc' = [pc EXCEPT ![i] = "raised"]
    /\ fault' = [fault EXCEPT ![i] = "OSError"]
    /\ UNCHANGED <<inputs, ranges, fst, tmp, dest, ppc, result, loop, forder, torder, prev>>

\* Lines 59-61: every concurrent_download returned; parallel_download
\* returns their results in call order.
ParallelReturn ==
    /\ loop = "running"
    /\ ppc = "running"
    /\ GatherDone(TaskStates)
    /\ ppc' = "returned"
    /\ result' = GatherResults(
                    [i \in Res |->
                        IF pc[i] = "done" THEN SavePath(i, fname[i]) ELSE None],
                    torder)
    /\ UNCHANGED <<inputs, pc, fault, ranges, fst, tmp, dest, loop, forder, torder, prev>>

\* Line 59 raises: a concurrent_download raised and gather hands the
\* exception to parallel_download, which has no handler for it.
ParallelRaise ==
    /\ loop = "running"
    /\ ppc = "running"
    /\ GatherRaised(TaskStates)
    /\ ppc' = "raised"
    /\ UNCHANGED <<inputs, pc, fault, ranges, fst, tmp, dest, result, loop, forder, torder, prev>>

\* A task asyncio.run cancels on its way out: CancelledError is raised at
\* the await the task is suspended in.
CancelledFetch(f) ==
    IF f.st \in {"inflight", "streaming"} THEN [f EXCEPT !.st = "cancelled"] ELSE f

\* Line 137: main() ended (parallel_download returned or raised), and
\* asyncio.run cancels every task still pending and closes the loop.
MainExit ==
    /\ loop = "running"
    /\ ppc \in {"returned", "raised"}
    /\ loop' = "closed"
    /\ pc' = [i \in Res |->
                IF pc[i] \in {"pending", "probing", "fetching"}
                THEN "cancelled" ELSE pc[i]]
    /\ fst' = [i \in Res |-> [k \in 1..Len(fst[i]) |-> CancelledFetch(fst[i][k])]]
    /\ UNCHANGED <<inputs, fault, ranges, tmp, dest, ppc, result, forder, torder, prev>>

Next ==
    \/ \E i \in Res : Start(i)
    \/ \E i \in Res : ProbeFail(i)
    \/ \E i \in Res : ProbeRaise(i)
    \/ \E i \in Res : ProbeOk(i)
    \/ \E i \in Res : \E k \in DOMAIN fst[i] : FetchOpen(i, k)
    \/ \E i \in Res : \E k \in DOMAIN fst[i], n \in 1..MaxBuf : FetchWrite(i, k, n)
    \/ \E i \in Res : \E k \in DOMAIN fst[i] : FetchEnd(i, k)
    \/ \E i \in Res : \E k \in DOMAIN fst[i] : FetchFail(i, k)
    \/ \E i \in Res : FetchGatherRaise(i)
    \/ \E i \in Res : Assemble(i)
    \/ \E i \in Res : AssembleFail(i)
    \/ ParallelReturn
    \/ ParallelRaise
    \/ MainExit

\* The same batch is downloaded again, with the same arguments, after a
\* run in which every resource was assembled: the temp files and the
\* destination files of that run are still there.
Rerun ==
    /\ prev.runs = 0
    /\ ppc = "returned"
    /\ \A i \in Res : pc[i] = "done"
    /\ prev' = [runs |-> 1, tmp |-> tmp, dest |-> dest]
    /\ pc' = [i \in Res |-> "pending"]
    /\ fault' = [i \in Res |-> "none"]
    /\ ranges' = [i \in Res |-> << >>]
    /\ fst' = [i \in Res |-> << >>]
    /\ forder' = [i \in Res |-> << >>]
    /\ torder' = << >>
    /\ ppc' = "running"
    /\ result' = None
    /\ loop' = "running"
    /\ UNCHANGED <<inputs, tmp, dest>>

NextRerun == Next \/ Rerun

NextServer == Next \/ \E i \in Res : \E k \in DOMAIN fst[i] : FetchOpenError(i, k)

\* A batch of two URLs.
Spec == Init /\ [][Next]_vars
\* A batch of one URL, with longer resources and more streams.
SpecSingle == InitSingle /\ [][Next]_vars
\* A batch of one URL that is downloaded a second time.
SpecRerun == InitSingle /\ [][NextRerun]_vars
\* A batch of one URL whose server may answer a GET with an error status.
SpecServer == InitServer /\ [][NextServer]_vars


\* =========================================================== properties ====
\* Line 84 onwards has run for URL i: the probe answered with a length.
Partitioned(i) == probe[i] = "ok" /\ pc[i] \in {"fetching", "done", "raised"}

\* The faults of the partitioning lines 84-88.
PartitionFaults == {"ZeroDivisionError", "ValueError"}

\* The offsets a range asks the server for.
RangeSet(r) == r.start..r.end

IsFailedFetch(i) == \E k \in DOMAIN fst[i] : fst[i][k].st = "failed"

\* ---- C1 ----
\* C1: round trip.  In a batch of one URL, once concurrent_download has
\* assembled (it is done), the destination file is the resource, byte for
\* byte, for every length, every stream count that gets that far and every
\* order in which the fetches were served.
C1_RoundTrip ==
    \A i \in Res :
        pc[i] = "done" => dest[SavePath(i, fname[i])] = Resource(i, flen[i])

\* A resource of 5 bytes in 3 ranges of 2 bytes, the last one clipped by
\* the server, has been assembled.
C1_Witness ==
    \E i \in Res :
        /\ pc[i] = "done"
        /\ flen[i] = 5
        /\ Len(ranges[i]) = 3
        /\ ranges[i][3].end > flen[i] - 1
        /\ Len(dest[SavePath(i, fname[i])]) = 5

\* ---- C2 ----
\* C2: for all L >= 0 and S >= 1 the partitioning step yields ranges that
\* are pairwise disjoint and whose union is exactly 0..L-1, without a fault.
C2_PartitionExact ==
    \A i \in Res :
        Partitioned(i) =>
            /\ fault[i] \notin PartitionFaults
            /\ UNION {RangeSet(ranges[i][k]) : k \in DOMAIN ranges[i]}
                   = 0..(flen[i] - 1)
            /\ \A k, m \in DOMAIN ranges[i] :
                   k # m => RangeSet(ranges[i][k]) \cap RangeSet(ranges[i][m]) = {}

\* ---- C3 ----
\* C3: a resource one of whose range fetches failed is never done:
\* concurrent_download has not assembled its destination file, and
\* parallel_download does not report its path.
C3_FailedRangeNeverDone ==
    \A i \in Res :
        IsFailedFetch(i) =>
            /\ pc[i] # "done"
            /\ ppc = "returned" => result[i] # SavePath(i, fname[i])

\* A fetch of a resource failed after a sibling had finished, and
\* concurrent_download ended with the exception.
C3_Witness ==
    \E i \in Res :
        /\ pc[i] = "raised"
        /\ fault[i] = "RangeFetchError"
        /\ \E k, m \in DOMAIN fst[i] :
               fst[i][k].st = "failed" /\ fst[i][m].st = "done"

\* ---- C4 ----
\* C4: whatever failure one resource suffers (of its probe, of a range
\* fetch, of its assembly), the batch does not abort: parallel_download
\* does not end with that failure instead of one outcome per resource.
C4_BatchNeverAborts ==
    (\A i \in Res : fault[i] \notin PartitionFaults) => ppc # "raised"

\* ---- C5 ----
\* C5: no two partial fetchers have the same interim file open for writing
\* at the same time.
C5_InterimExclusive ==
    \A i, j \in Res : \A k \in DOMAIN fst[i], m \in DOMAIN fst[j] :
        /\ <<i, k>> # <<j, m>>
        /\ fst[i][k].st = "streaming"
        /\ fst[j][m].st = "streaming"
        => TempPath(i, fname[i], ranges[i][k].part)
               # TempPath(j, fname[j], ranges[j][m].part)

\* ---- C6 ----
\* C6: in a batch without any failure, every resource that is done has a
\* destination file equal to its own resource.
FailureFree ==
    \A i \in Res :
        /\ probe[i] = "ok"
        /\ fault[i] = "none"
        /\ \A k \in DOMAIN fst[i] : fst[i][k].st \notin {"failed", "cancelled"}

C6_PipelineIsolation ==
    FailureFree =>
        \A i \in Res :
            pc[i] = "done" => dest[SavePath(i, fname[i])] = Resource(i, flen[i])

\* ---- C7 ----
\* C7: with session_num = 1 the partitioning yields the one range
\* [0, L-1] and no division fault.
C7_SingleStream ==
    \A i \in Res :
        session_num = 1 /\ Partitioned(i) =>
            /\ fault[i] # "ZeroDivisionError"
            /\ Len(ranges[i]) = 1
            /\ RangeSet(ranges[i][1]) = 0..(flen[i] - 1)

\* ---- C8 ----
\* C8: a resource of length 0 raises no error in concurrent_download, for
\* every stream count, and when done its destination file is empty.
C8_ZeroLength ==
    \A i \in Res :
        flen[i] = 0 /\ Partitioned(i) =>
            /\ pc[i] # "raised"
            /\ pc[i] = "done" => dest[SavePath(i, fname[i])] = << >>

\* ---- C9 ----
\* C9: a probe that fails with a connection error, an invalid URL or a
\* missing Content-Length ends concurrent_download with None: nothing is
\* partitioned, no range fetch exists, and its outcome is None.
CaughtProbeFailures == {"conn", "invalid", "nolength"}

C9_ProbeFailureClean ==
    \A i \in Res :
        probe[i] \in CaughtProbeFailures =>
            /\ pc[i] \in {"pending", "probing", "failed", "cancelled"}
            /\ fault[i] = "none"
            /\ ranges[i] = << >>
            /\ fst[i] = << >>
            /\ ppc = "returned" => result[i] = None

\* A probe without Content-Length has ended its resource with None while
\* another resource of the batch was assembled.
C9_Witness ==
    \E i, j \in Res :
        /\ probe[i] = "nolength"
        /\ pc[i] = "failed"
        /\ pc[j] = "done"
        /\ ppc = "returned"

\* ---- C10 ----
\* C10: a resource has left Fetching (it is done, or ended with an
\* exception after its fetches were started) only when every one of its
\* range fetches has completed, with success or with failure.
C10_FanIn ==
    \A i \in Res :
        pc[i] \in {"done", "raised"} =>
            \A k \in DOMAIN fst[i] : fst[i][k].st \in {"done", "failed"}

\* ---- C11 ----
\* C11: when a range fetch of a resource has failed, no sibling fetch of
\* that resource is cancelled: each runs to its own completion, also when
\* the program runs through main under asyncio.run.
C11_SiblingsNotCancelled ==
    \A i \in Res :
        IsFailedFetch(i) =>
            \A k \in DOMAIN fst[i] : fst[i][k].st # "cancelled"

\* ---- C13 ----
\* C13: the end offset of every range handed to a partial fetcher, and
\* sent in its bytes=start-end selector, is at most L - 1.
C13_EndClamped ==
    \A i \in Res : \A k \in DOMAIN ranges[i] :
        ranges[i][k].end <= flen[i] - 1

C15_StreamCount ==
    \A i \in Res :
        Partitioned(i) /\ flen[i] >= 1 /\ session_num >= 2 =>
            /\ fault[i] \notin PartitionFaults
            /\ Len(fst[i]) = session_num

\* ---- C16 ----
\* C16: a resource is pending, probing, fetching, or has ended Done or
\* Failed (None returned); it never ends by a fault that escapes
\* concurrent_download, and parallel_download never ends by raising.
C16_DefinedOutcome ==
    /\ \A i \in Res : pc[i] \in {"pending", "probing", "fetching", "done", "failed"}
    /\ ppc \in {"running", "returned"}


\* ---- C12 ----
\* C12: whatever the order in which the range fetches of a resource
\* returned, the assembled destination file is the part files 1, 2, ..., n
\* in ascending sequence index, each exactly once.
C12_AscendingAssembly ==
    \A i \in Res :
        pc[i] = "done" =>
            dest[SavePath(i, fname[i])] =
                Concat(tmp, [k \in 1..Len(ranges[i]) |-> TempPath(i, fname[i], k)])

\* A resource has been assembled whose three fetches returned in the
\* order 3, 1, 2.
C12_Witness ==
    \E i \in Res :
        /\ pc[i] = "done"
        /\ forder[i] = <<3, 1, 2>>
        /\ Len(dest[SavePath(i, fname[i])]) = flen[i]

\* ---- C17 ----
\* C17: a second run of the pipeline on the unchanged resource, started
\* with the interim files and the destination file of the first run in
\* place, assembles a destination file equal to the first run's.
C17_Idempotent ==
    \A i \in Res :
        prev.runs = 1 /\ pc[i] = "done" =>
            dest[SavePath(i, fname[i])] = prev.dest[SavePath(i, fname[i])]

\* The second run of a resource of 5 bytes in 3 parts has been assembled
\* over the files of the first run.
C17_Witness ==
    \E i \in Res :
        /\ prev.runs = 1
        /\ pc[i] = "done"
        /\ flen[i] = 5
        /\ Len(ranges[i]) = 3
        /\ Len(prev.dest[SavePath(i, fname[i])]) = 5
        /\ TempPath(i, fname[i], 3) \in DOMAIN prev.tmp

\* ---- C18 ----
\* C18: whenever _partial_download has returned its interim path, the
\* interim file's length is the length of the requested range restricted
\* to the resource, min(chunk, L - start), whatever response the server
\* gave.
C18_FetchLength ==
    \A i \in Res : \A k \in DOMAIN fst[i] :
        fst[i][k].st = "done" =>
            Len(tmp[TempPath(i, fname[i], ranges[i][k].part)])
                = Min(ChunkSize(flen[i], session_num),
                      flen[i] - ranges[i][k].start)

\* ---- C19 ----
\* C19: the destination file of a resource is as it was before the run
\* (absent, or the file an earlier run left) until the resource is done,
\* and a resource is done only after its probe succeeded and every one of
\* its range fetches returned.
C19_DestUntouchedUntilFanIn ==
    \A i \in Res :
        /\ pc[i] # "done" =>
               dest[SavePath(i, fname[i])] = prev.dest[SavePath(i, fname[i])]
        /\ pc[i] = "done" =>
               /\ probe[i] = "ok"
               /\ \A k \in DOMAIN fst[i] : fst[i][k].st = "done"

\* In a second run a range fetch failed and concurrent_download ended
\* with the exception; the destination file of the first run is intact.
C19_Witness ==
    \E i \in Res :
        /\ prev.runs = 1
        /\ pc[i] = "raised"
        /\ IsFailedFetch(i)
        /\ flen[i] >= 2
        /\ dest[SavePath(i, fname[i])] = Resource(i, flen[i])

\* ---- C20 ----
\* C20: when parallel_download has returned, its result has one entry per
\* URL in input order: the destination path of URL i when that resource is
\* done, None when its probe failed, whatever the order of finishing.
C20_ResultAlignment ==
    ppc = "returned" =>
        /\ Len(result) = Len(fname)
        /\ \A i \in Res :
            /\ pc[i] = "done" => result[i] = SavePath(i, fname[i])
            /\ probe[i] \in CaughtProbeFailures => result[i] = None

\* parallel_download has returned for two URLs of different basenames:
\* the second finished first, and the first one's probe had failed.
C20_Witness ==
    /\ ppc = "returned"
    /\ Len(fname) = 2
    /\ torder = <<2, 1>>
    /\ pc = <<"failed", "done">>
    /\ fname[1] # fname[2]


====
